---- MODULE Spec2Model ----
(***************************************************************************)
(* A model of server.py: the per-connection protocol handler ClientHandler *)
(* (an asyncio.Protocol) of the secure_comms file-upload server.           *)
(*                                                                         *)
(* Representation.                                                         *)
(*  - A byte of the inbound stream is an element [c |-> n], n in 0..255.   *)
(*    An element [text |-> j] stands for the run of ASCII bytes that       *)
(*    spells the JSON text of the value j; such a run holds no CR, no LF   *)
(*    and no byte above 127.  After data.decode() an element [c |-> n] is  *)
(*    the character with code point n.                                     *)
(*  - A Python str that the program inspects character by character (a     *)
(*    file name, a base64 payload, a path) is a sequence of code points.   *)
(*  - None is <<>> for the optional fields file, file_name, file_path,     *)
(*    key, parameters and private_key (a value v is <<v>>), and the string *)
(*    "None" for the three negotiated algorithm names.                     *)
(***************************************************************************)
EXTENDS Integers, Sequences, FiniteSets, TLC

\* ------------------------------------------------------------- constants

STATE_CONNECT == 0
STATE_OPEN == 1
STATE_DATA == 2
STATE_CLOSE == 3

CR == 13
LF == 10
SP == 32
\* the two bytes of the UTF-8 encoding of U+00E9, and that code point
UTF8_LEAD == 195
UTF8_CONT == 169
E_ACUTE == 233

\* len(self.buffer) > 4096 * 1024 * 1024, in units of 1024 * 1024 characters
\* (the product is beyond the integers TLC computes with)
BufferLimitMi == 4096

Mi == 1024 * 1024

TooLarge(n) == n \div Mi > BufferLimitMi \/ (n \div Mi = BufferLimitMi /\ n % Mi > 0)

None == "None"

B(n) == [c |-> n]

IsByte(x) == "c" \in DOMAIN x

\* ----------------------------------------------------- sequence helpers

Last(s) == s[Len(s)]

Front(s) == SubSeq(s, 1, Len(s) - 1)

\* ------------------------------------------------- data.decode() (UTF-8)

\* bytes.decode() succeeds on the whole chunk or raises UnicodeDecodeError:
\* a lead byte needs its continuation byte inside the same chunk, and a
\* continuation byte needs a lead byte before it.
RECURSIVE Utf8Valid(_)
Utf8Valid(bs) ==
    IF bs = <<>> THEN TRUE
    ELSE IF ~IsByte(Head(bs)) THEN Utf8Valid(Tail(bs))
    ELSE IF Head(bs).c < 128 THEN Utf8Valid(Tail(bs))
    ELSE /\ Head(bs).c = UTF8_LEAD
         /\ Len(bs) >= 2
         /\ bs[2] = B(UTF8_CONT)
         /\ Utf8Valid(Tail(Tail(bs)))

RECURSIVE Utf8Decode(_)
Utf8Decode(bs) ==
    IF bs = <<>> THEN <<>>
    ELSE IF IsByte(Head(bs)) /\ Head(bs).c = UTF8_LEAD
         THEN <<B(E_ACUTE)>> \o Utf8Decode(Tail(Tail(bs)))
         ELSE <<Head(bs)>> \o Utf8Decode(Tail(bs))

\* ------------------------------------------- str.find('\r\n'), str.strip()

\* the 1-based position of the first CR that an LF follows, 0 when none
\* (Python's find gives that position less one, and -1 when none)
RECURSIVE FindFrom(_, _)
FindFrom(s, i) ==
    IF i + 1 > Len(s) THEN 0
    ELSE IF s[i] = B(CR) /\ s[i + 1] = B(LF) THEN i
    ELSE FindFrom(s, i + 1)

Find(s) == FindFrom(s, 1)

IsSpace(x) == IsByte(x) /\ x.c \in {SP, CR, LF}

RECURSIVE LStrip(_)
LStrip(s) == IF s # <<>> /\ IsSpace(Head(s)) THEN LStrip(Tail(s)) ELSE s

RECURSIVE RStrip(_)
RStrip(s) == IF s # <<>> /\ IsSpace(Last(s)) THEN RStrip(Front(s)) ELSE s

Strip(s) == RStrip(LStrip(s))

\* ------------------------------------------------------------ json.loads

\* json.loads(frame): the frame, surrounding whitespace aside, must spell
\* exactly one JSON text; anything else raises.
ParseOk(frame) == Len(Strip(frame)) = 1 /\ ~IsByte(Strip(frame)[1])

Parse(frame) == Strip(frame)[1].text

\* a parsed JSON value is an object (a dict) or not (a list here)
Obj(fields) == [kind |-> "object", obj |-> fields]

JsonArray == [kind |-> "array"]

Has(message, k) == k \in DOMAIN message

\* str.upper() on the type tags that occur
Upper(t) ==
    CASE t = "open" -> "OPEN"
      [] t = "data" -> "DATA"
      [] t = "close" -> "CLOSE"
      [] t = "negotiate" -> "NEGOTIATE"
      [] t = "foo" -> "FOO"
      [] OTHER -> t

\* ------------------------------------------------------------- File Sink

DOT == 46
SLASH == 47
BACKSLASH == 92
DASH == 45
LOWER_A == 97

\* \w of a str pattern: letters, digits and the underscore, non-ASCII
\* letters included
IsWordChar(ch) ==
    \/ ch \in 48..57
    \/ ch \in 65..90
    \/ ch \in 97..122
    \/ ch = 95
    \/ ch = E_ACUTE

\* a pattern that also keeps '/', r'[^\w\./]' (a mutant of KeepChar)
KeepChar_and_slash(ch) == IsWordChar(ch) \/ ch = DOT \/ ch = SLASH

KeepChar(ch) == IsWordChar(ch) \/ ch = DOT

\* re.sub(r'[^\w\.]', '', message['file_name'])
Sanitize(name) == SelectSeq(name, KeepChar)

\* storage_dir = 'files'
STORAGE_DIR == <<102, 105, 108, 101, 115>>

\* os.path.join(a, b) on POSIX
PathJoin(a, b) ==
    IF b # <<>> /\ Head(b) = SLASH THEN b
    ELSE IF a = <<>> \/ Last(a) = SLASH THEN a \o b
    ELSE a \o <<SLASH>> \o b

\* the components of a path string, split at '/'
RECURSIVE SplitPath(_, _)
SplitPath(p, cur) ==
    IF p = <<>> THEN <<cur>>
    ELSE IF Head(p) = SLASH THEN <<cur>> \o SplitPath(Tail(p), <<>>)
    ELSE SplitPath(Tail(p), Append(cur, Head(p)))

\* what the kernel makes of the components, from the working directory
\* <<>>: "" and "." are skipped, ".." leaves a directory (and stays as a
\* component when it leaves the working directory itself)
RECURSIVE Walk(_, _)
Walk(comps, at) ==
    IF comps = <<>> THEN at
    ELSE IF Head(comps) \in {<<>>, <<DOT>>} THEN Walk(Tail(comps), at)
    ELSE IF Head(comps) = <<DOT, DOT>>
         THEN IF at # <<>> /\ Last(at) # <<DOT, DOT>>
              THEN Walk(Tail(comps), Front(at))
              ELSE Walk(Tail(comps), Append(at, <<DOT, DOT>>))
    ELSE Walk(Tail(comps), Append(at, Head(comps)))

Resolve(p) ==
    IF p # <<>> /\ Head(p) = SLASH
    THEN Walk(SplitPath(p, <<>>), <<<<SLASH>>>>)
    ELSE Walk(SplitPath(p, <<>>), <<>>)

\* whether the path string names a directory by its form: it ends in '/',
\* '.' or '..', or is empty
NamesDirectory(p) == Last(SplitPath(p, <<>>)) \in {<<>>, <<DOT>>, <<DOT, DOT>>}

\* the file system: the directories that exist and the content of each file
IsDir(fs, r) == r \in fs.dirs \/ r = <<>> \/ Last(r) = <<DOT, DOT>> \/ r = <<<<SLASH>>>>

\* os.path.exists("files") / os.mkdir("files")
StorageExists(fs) == Resolve(STORAGE_DIR) \in fs.dirs

Mkdir(fs) == [fs EXCEPT !.dirs = @ \cup {Resolve(STORAGE_DIR)}]

\* open(file_path, "wb") succeeds when the path names no directory and its
\* parent directory exists; the file is created or truncated
CanOpen(fs, p) ==
    /\ ~NamesDirectory(p)
    /\ ~IsDir(fs, Resolve(p))
    /\ IsDir(fs, Front(Resolve(p)))

OpenWB(fs, p) == [fs EXCEPT !.files = (Resolve(p) :> <<>>) @@ @]

Handle(p) == [path |-> Resolve(p), pos |-> 0]

\* file.write(bdata); file.flush(): the bytes go to the handle's position,
\* over what is there, and the position moves on
RECURSIVE Zeros(_)
Zeros(n) == IF n <= 0 THEN <<>> ELSE <<0>> \o Zeros(n - 1)

WriteAt(content, pos, bytes) ==
    LET padded == content \o Zeros(pos - Len(content))
    IN  SubSeq(padded, 1, pos) \o bytes
            \o SubSeq(padded, pos + Len(bytes) + 1, Len(padded))

FileWrite(fs, h, bytes) ==
    [fs EXCEPT !.files = (h.path :> WriteAt(fs.files[h.path], h.pos, bytes)) @@ @]

\* ------------------------------------------------------ base64.b64decode

\* the 6-bit value of a character of the base64 alphabet, -1 for any other
B64Value(ch) ==
    IF ch \in 65..90 THEN ch - 65
    ELSE IF ch \in 97..122 THEN ch - 71
    ELSE IF ch \in 48..57 THEN ch + 4
    ELSE IF ch = 43 THEN 62
    ELSE IF ch = 47 THEN 63
    ELSE -1

PAD == 61

IsB64Char(ch) == B64Value(ch) >= 0 \/ ch = PAD

\* the data characters before the first '='
RECURSIVE BeforePad(_)
BeforePad(s) ==
    IF s = <<>> \/ Head(s) = PAD THEN <<>>
    ELSE <<Head(s)>> \o BeforePad(Tail(s))

IsPadChar(ch) == ch = PAD

\* b64decode(s) with validate=False discards the characters outside the
\* alphabet; it raises on a non-ASCII character, on a number of data
\* characters that is 1 more than a multiple of 4, and on missing padding
B64Ok(s) ==
    LET t == SelectSeq(s, IsB64Char)
        n == Len(BeforePad(t))
        pads == Len(SelectSeq(t, IsPadChar))
    IN  /\ \A i \in 1..Len(s) : s[i] < 128
        /\ n % 4 # 1
        /\ (n % 4 = 2 => pads >= 2)
        /\ (n % 4 = 3 => pads >= 1)

RECURSIVE B64Bytes(_)
B64Bytes(v) ==
    IF Len(v) < 2 THEN <<>>
    ELSE IF Len(v) = 2 THEN <<v[1] * 4 + v[2] \div 16>>
    ELSE IF Len(v) = 3
         THEN <<v[1] * 4 + v[2] \div 16, (v[2] % 16) * 16 + v[3] \div 4>>
    ELSE <<v[1] * 4 + v[2] \div 16,
           (v[2] % 16) * 16 + v[3] \div 4,
           (v[3] % 4) * 64 + v[4]>> \o B64Bytes(SubSeq(v, 5, Len(v)))

B64Decode(s) ==
    LET t == BeforePad(SelectSeq(s, IsB64Char))
    IN  B64Bytes([i \in 1..Len(t) |-> B64Value(t[i])])

\* ------------------------------------------------------ Handshake Engine

\* dh.generate_parameters(generator=2, ...): a group small enough to compute
\* in, with the generator the code asks for
DhParameters == [p |-> 11, g |-> 2]

RECURSIVE PowMod(_, _, _)
PowMod(b, e, m) == IF e = 0 THEN 1 % m ELSE (b * PowMod(b, e - 1, m)) % m

PublicValue(params, x) == PowMod(params.g, x, params.p)

\* load_pem_public_key accepts a well-formed PEM text whose value belongs
\* to the group of the private key
PemOk(params, pem) == pem.wellformed /\ pem.y \in 2..(params.p - 2)

\* HKDF(SHA256, length=32, salt=None, info=b'handshake data').derive(shared)
Hkdf(shared) == [hkdf |-> shared]

\* ---------------------------------------------------------- the session

\* The fields of a ClientHandler, the transport it holds, the file system
\* it writes to, and the record of the frames it has processed.
\* transport: "none" before connection_made, "open", "closed" once
\* transport.close() was called or the connection was lost.
\* fault: an exception escaped data_received.
NewHandler(fs) ==
    [state |-> 0, file |-> <<>>, file_name |-> <<>>, file_path |-> <<>>,
     storage_dir |-> STORAGE_DIR, buffer |-> <<>>, key |-> <<>>,
     parameters |-> <<>>, private_key |-> <<>>,
     cipher |-> None, mode |-> None, hash_function |-> None,
     transport |-> "none", out |-> <<>>, fs |-> fs,
     fault |-> FALSE, log |-> <<>>]

\* what a log entry keeps of the session before and after a frame
Snap(s) ==
    [state |-> s.state, file |-> s.file, file_name |-> s.file_name,
     key |-> s.key,
     cipher |-> s.cipher, mode |-> s.mode, hash_function |-> s.hash_function,
     transport |-> s.transport, out |-> s.out, fs |-> s.fs]

\* the outcome of a handler: the session after it and what it returned
\* ("True", "False"), or "raise" when an exception left it
Ret(s, r) == [s |-> s, ret |-> r]

\* self._send(message): transport.write(json.dumps(message) + '\r\n')
Send(s, message) == [s EXCEPT !.out = Append(@, message)]

TransportClose(s) == [s EXCEPT !.transport = "closed"]

\* self.file.close(); self.file = None
FileClose(s) == [s EXCEPT !.file = <<>>]

\* ---------------------------------------------------- Negotiation Engine

In(x, list) == \E i \in 1..Len(list) : list[i] = x

\* the first offered cipher that is supported, not the preferred one (a
\* mutant of ChooseCipher)
RECURSIVE FirstSupported(_, _)
FirstSupported(list, supported) ==
    IF list = <<>> THEN None
    ELSE IF Head(list) \in supported THEN Head(list)
    ELSE FirstSupported(Tail(list), supported)

ChooseCipher_first_offered(s, ciphers) ==
    IF FirstSupported(ciphers, {"ChaCha20", "AES"}) # None
    THEN Ret([s EXCEPT !.cipher = FirstSupported(ciphers, {"ChaCha20", "AES"})],
             "True")
    ELSE Ret(s, "False")

ChooseCipher(s, ciphers) ==
    IF In("ChaCha20", ciphers) THEN Ret([s EXCEPT !.cipher = "ChaCha20"], "True")
    ELSE IF In("AES", ciphers) THEN Ret([s EXCEPT !.cipher = "AES"], "True")
    ELSE Ret(s, "False")

ChooseMode(s, modes) ==
    IF In("GCM", modes) THEN Ret([s EXCEPT !.mode = "GCM"], "True")
    ELSE IF In("CBC", modes) THEN Ret([s EXCEPT !.mode = "CBC"], "True")
    ELSE Ret(s, "False")

ChooseHash(s, hash_functions) ==
    IF In("SHA-512", hash_functions)
    THEN Ret([s EXCEPT !.hash_function = "SHA-512"], "True")
    ELSE IF In("SHA-256", hash_functions)
    THEN Ret([s EXCEPT !.hash_function = "SHA-256"], "True")
    ELSE Ret(s, "False")

choose_algo(s, ciphers, modes, hash_functions) ==
    LET c == ChooseCipher(s, ciphers)
        m == ChooseMode(c.s, modes)
        h == ChooseHash(m.s, hash_functions)
    IN  IF c.ret = "False" THEN c
        ELSE IF m.ret = "False" THEN m
        ELSE h

process_negotiate(s, message) ==
    IF s.state # STATE_CONNECT THEN Ret(s, "False")
    ELSE IF \/ ~Has(message, "ciphers")
            \/ ~Has(message, "modes")
            \/ ~Has(message, "sinteses")
    THEN Ret(s, "False")
    ELSE LET r == choose_algo(s, message.ciphers, message.modes, message.sinteses)
         IN  Ret(Send(r.s, [type |-> "CIPHER_CHOSEN",
                            cipher |-> r.s.cipher,
                            mode |-> r.s.mode,
                            sintese |-> r.s.hash_function]),
                 r.ret)

\* ------------------------------------------------------------- handlers

\* get_key(message.get('data').get('pub_key')): nothing is caught, so a
\* missing data object, a missing pub_key or a PEM text that does not load
\* leaves the handler as an exception
get_key(s, message) ==
    IF ~Has(message, "data") THEN Ret(s, "raise")
    ELSE IF ~Has(message.data, "pub_key") THEN Ret(s, "raise")
    ELSE IF ~PemOk(s.parameters[1], message.data.pub_key) THEN Ret(s, "raise")
    ELSE LET shared_key == PowMod(message.data.pub_key.y, s.private_key[1],
                                  s.parameters[1].p)
         IN  Ret([s EXCEPT !.key = <<Hkdf(shared_key)>>], "True")

\* process_open without its check of the state (a mutant of process_open)
process_open_any_state(s, message, io) ==
    IF ~Has(message, "file_name") THEN Ret(s, "False")
    ELSE LET file_name == Sanitize(message.file_name)
             file_path == PathJoin(s.storage_dir, file_name)
             made == IF StorageExists(s.fs) THEN s.fs ELSE Mkdir(s.fs)
         IN  IF ~StorageExists(s.fs) /\ ~io THEN Ret(s, "False")
             ELSE IF ~io \/ ~CanOpen(made, file_path)
                  THEN Ret([s EXCEPT !.fs = made], "False")
             ELSE Ret([Send([s EXCEPT !.fs = OpenWB(made, file_path),
                                      !.file = <<Handle(file_path)>>],
                            [type |-> "OK"])
                          EXCEPT !.file_name = <<file_name>>,
                                 !.file_path = <<file_path>>,
                                 !.state = STATE_OPEN],
                      "True")

\* io: whether the file system works during this call (FALSE: mkdir, open
\* and write raise OSError)
process_open(s, message, io) ==
    IF s.state # STATE_CONNECT THEN Ret(s, "False")
    ELSE IF ~Has(message, "file_name") THEN Ret(s, "False")
    ELSE LET file_name == Sanitize(message.file_name)
             file_path == PathJoin(s.storage_dir, file_name)
             made == IF StorageExists(s.fs) THEN s.fs ELSE Mkdir(s.fs)
         IN  IF ~StorageExists(s.fs) /\ ~io THEN Ret(s, "False")
             ELSE IF ~io \/ ~CanOpen(made, file_path)
                  THEN Ret([s EXCEPT !.fs = made], "False")
             ELSE Ret([Send([s EXCEPT !.fs = OpenWB(made, file_path),
                                      !.file = <<Handle(file_path)>>],
                            [type |-> "OK"])
                          EXCEPT !.file_name = <<file_name>>,
                                 !.file_path = <<file_path>>,
                                 !.state = STATE_OPEN],
                      "True")

\* process_data that does not write the first packet (a mutant of
\* process_data)
process_data_first_unwritten(s, message, io) ==
    LET s1 == IF s.state = STATE_OPEN THEN [s EXCEPT !.state = STATE_DATA] ELSE s
    IN  IF s.state \notin {STATE_OPEN, STATE_DATA} THEN Ret(s, "False")
        ELSE IF ~Has(message, "data") THEN Ret(s1, "False")
        ELSE IF ~B64Ok(message.data) THEN Ret(s1, "False")
        ELSE IF s1.file = <<>> \/ ~io THEN Ret(s1, "False")
        ELSE IF s.state = STATE_OPEN THEN Ret(s1, "True")
        ELSE LET bdata == B64Decode(message.data)
                 h == s1.file[1]
             IN  Ret([s1 EXCEPT !.fs = FileWrite(s1.fs, h, bdata),
                                !.file = <<[h EXCEPT !.pos = @ + Len(bdata)]>>],
                     "True")

\* process_data that discards a message in a wrong state without failing
\* (a mutant of process_data)
process_data_discards(s, message, io) ==
    LET s1 == IF s.state = STATE_OPEN THEN [s EXCEPT !.state = STATE_DATA] ELSE s
    IN  IF s.state \notin {STATE_OPEN, STATE_DATA} THEN Ret(s, "True")
        ELSE IF ~Has(message, "data") THEN Ret(s1, "False")
        ELSE IF ~B64Ok(message.data) THEN Ret(s1, "False")
        ELSE IF s1.file = <<>> \/ ~io THEN Ret(s1, "False")
        ELSE LET bdata == B64Decode(message.data)
                 h == s1.file[1]
             IN  Ret([s1 EXCEPT !.fs = FileWrite(s1.fs, h, bdata),
                                !.file = <<[h EXCEPT !.pos = @ + Len(bdata)]>>],
                     "True")

process_data(s, message, io) ==
    LET s1 == IF s.state = STATE_OPEN THEN [s EXCEPT !.state = STATE_DATA] ELSE s
    IN  IF s.state \notin {STATE_OPEN, STATE_DATA} THEN Ret(s, "False")
        ELSE IF ~Has(message, "data") THEN Ret(s1, "False")
        ELSE IF ~B64Ok(message.data) THEN Ret(s1, "False")
        ELSE IF s1.file = <<>> \/ ~io THEN Ret(s1, "False")
        ELSE LET bdata == B64Decode(message.data)
                 h == s1.file[1]
             IN  Ret([s1 EXCEPT !.fs = FileWrite(s1.fs, h, bdata),
                                !.file = <<[h EXCEPT !.pos = @ + Len(bdata)]>>],
                     "True")

\* process_close that leaves the file open (a mutant of process_close)
process_close_keeps_file(s, message) ==
    Ret([TransportClose(s) EXCEPT !.state = STATE_CLOSE], "True")

process_close(s, message) ==
    LET s1 == TransportClose(s)
        s2 == IF s1.file # <<>> THEN FileClose(s1) ELSE s1
    IN  Ret([s2 EXCEPT !.state = STATE_CLOSE], "True")

\* the block under "if not ret" without the closing of the file (a mutant
\* of Fatal)
Fatal_keeps_file(s) ==
    LET s1 == Send(s, [type |-> "ERROR", message |-> "See server"])
    IN  TransportClose([s1 EXCEPT !.state = STATE_CLOSE])

\* the block under "if not ret" without the change of state (a mutant of
\* Fatal)
Fatal_keeps_state(s) ==
    LET s1 == Send(s, [type |-> "ERROR", message |-> "See server"])
        s2 == IF s1.file # <<>> THEN FileClose(s1) ELSE s1
    IN  TransportClose(s2)

\* the block under "if not ret" of on_frame
Fatal(s) ==
    LET s1 == Send(s, [type |-> "ERROR", message |-> "See server"])
        s2 == IF s1.file # <<>> THEN FileClose(s1) ELSE s1
    IN  TransportClose([s2 EXCEPT !.state = STATE_CLOSE])

\* the dispatch of on_frame on a parsed JSON value
Dispatch(s, json, io) ==
    IF json.kind # "object" THEN Ret(s, "raise")
    ELSE LET message == json.obj
             mtype == Upper(IF Has(message, "type") THEN message.type ELSE "")
         IN  CASE mtype = "DH_KEY_EXCHANGE" -> get_key(s, message)
               [] mtype = "OPEN" -> process_open(s, message, io)
               [] mtype = "DATA" -> process_data(s, message, io)
               [] mtype = "CLOSE" -> process_close(s, message)
               [] mtype = "NEGOTIATE" -> process_negotiate(s, message)
               [] OTHER -> IF Has(message, "type") THEN Ret(s, "False")
                           ELSE Ret(s, "raise")

Logged(s0, frame, ret, s1) ==
    [s1 EXCEPT !.log = Append(@, [frame |-> frame, ret |-> ret,
                                  pre |-> Snap(s0), post |-> Snap(s1)])]

on_frame(s, frame, io) ==
    IF ~ParseOk(frame) THEN Logged(s, frame, "parse", TransportClose(s))
    ELSE LET r == Dispatch(s, Parse(frame), io)
         IN  IF r.ret = "raise"
             THEN Logged(s, frame, "raise", [r.s EXCEPT !.fault = TRUE])
             ELSE IF r.ret = "False" THEN Logged(s, frame, "False", Fatal(r.s))
             ELSE Logged(s, frame, "True", r.s)

\* the while loop of data_received; an exception that leaves on_frame
\* leaves the loop and data_received with it
RECURSIVE Drain(_, _)
Drain(s, io) ==
    LET idx == Find(s.buffer)
    IN  IF s.fault \/ idx = 0 THEN s
        ELSE Drain(on_frame([s EXCEPT !.buffer = SubSeq(@, idx + 2, Len(@))],
                            Strip(SubSeq(s.buffer, 1, idx + 1)), io),
                   io)

BufferGuard(s) ==
    IF ~s.fault /\ TooLarge(Len(s.buffer))
    THEN TransportClose([s EXCEPT !.buffer = <<>>])
    ELSE s

data_received(s, data, io) ==
    LET s1 == IF Utf8Valid(data)
              THEN [s EXCEPT !.buffer = @ \o Utf8Decode(data)]
              ELSE s
    IN  BufferGuard(Drain(s1, io))

\* x: the private key generate_private_key() draws
connection_made(s, x) ==
    LET s1 == Send([s EXCEPT !.transport = "open", !.state = STATE_CONNECT,
                             !.parameters = <<DhParameters>>],
                   [type |-> "DH_INIT", data |-> DhParameters])
    IN  Send([s1 EXCEPT !.private_key = <<x>>],
             [type |-> "DH_KEY_EXCHANGE",
              data |-> [pub_key |-> [wellformed |-> TRUE,
                                     y |-> PublicValue(DhParameters, x)]]])

\* ------------------------------------------------------------ the inputs

\* bounds of the model
MaxFrames == 3
MaxPending == 3
MaxStream == 5
MaxName == 4

OpenMsg(t, name) == Obj([type |-> t, file_name |-> name])

DataMsg(payload) == Obj([type |-> "DATA", data |-> payload])

NegotiateMsg(ciphers, modes, sinteses) ==
    Obj([type |-> "NEGOTIATE", ciphers |-> ciphers, modes |-> modes,
         sinteses |-> sinteses])

KeyMsg(wellformed, y) ==
    Obj([type |-> "DH_KEY_EXCHANGE",
         data |-> [pub_key |-> [wellformed |-> wellformed, y |-> y]]])

\* "QQ==" (the byte 65), "QkM=" (the bytes 66 67), "Q" (no base64 text)
PayloadA == <<81, 81, 61, 61>>
PayloadBC == <<81, 107, 77, 61>>
PayloadBad == <<81>>

NameA == <<LOWER_A>>

OpenTexts ==
    {OpenMsg("OPEN", NameA),
     OpenMsg("open", <<DOT, DOT, SLASH, LOWER_A>>),
     OpenMsg("OPEN", <<DOT, DOT>>),
     Obj([type |-> "OPEN"])}

DataTexts ==
    {DataMsg(PayloadA), DataMsg(PayloadBC), DataMsg(PayloadBad),
     Obj([type |-> "DATA"])}

NegotiateTexts ==
    {NegotiateMsg(<<"AES", "ChaCha20">>, <<"CBC", "GCM">>, <<"SHA-256", "SHA-512">>),
     NegotiateMsg(<<"AES">>, <<"CBC">>, <<"SHA-256">>),
     NegotiateMsg(<<"DES">>, <<"GCM">>, <<"SHA-512">>),
     NegotiateMsg(<<"AES">>, <<"EBC">>, <<"SHA-512">>),
     Obj([type |-> "NEGOTIATE", ciphers |-> <<"AES">>, modes |-> <<"GCM">>])}

KeyTexts ==
    {KeyMsg(TRUE, 4), KeyMsg(TRUE, 8), KeyMsg(FALSE, 4),
     Obj([type |-> "DH_KEY_EXCHANGE"])}

OtherTexts ==
    {Obj([type |-> "CLOSE"]), Obj([type |-> "FOO"]), Obj([type |-> ""]),
     Obj(<<>>), JsonArray}

Texts == OpenTexts \cup DataTexts \cup NegotiateTexts \cup KeyTexts \cup OtherTexts

T(j) == [text |-> j]

\* a frame on the wire: the JSON text and the delimiter
Framed(j) == <<T(j), B(CR), B(LF)>>

\* "a" followed by the delimiter: a frame that is no JSON text
Garbage == <<B(LOWER_A), B(CR), B(LF)>>

Units == {Framed(j) : j \in Texts} \cup {Garbage}

\* the frames that come second in a chunk of two
FollowUnits ==
    {Framed(j) : j \in {OpenMsg("OPEN", NameA), DataMsg(PayloadA),
                        DataMsg(PayloadBC), Obj([type |-> "DATA"]),
                        NegotiateMsg(<<"AES">>, <<"CBC">>, <<"SHA-256">>),
                        KeyMsg(TRUE, 4), Obj([type |-> "CLOSE"]),
                        Obj([type |-> "FOO"])}}
        \cup {Garbage}

\* the chunks the transport delivers: one frame, two frames at once, a frame
\* without its delimiter or with half of it, and the delimiter's bytes
WholeChunks == Units \cup {u \o v : u \in Units, v \in FollowUnits}

HeadChunks == {<<T(j)>> : j \in Texts} \cup {<<T(j), B(CR)>> : j \in Texts}

TailChunks == {<<B(CR)>>, <<B(LF)>>, <<B(CR), B(LF)>>}

PrivateKeys == {3, 7}

\* the storage directory missing, or there with a file "a" in it
InitialFileSystems ==
    {[dirs |-> {}, files |-> <<>>],
     [dirs |-> {Resolve(STORAGE_DIR)},
      files |-> (Resolve(PathJoin(STORAGE_DIR, NameA)) :> <<88, 89>>)]}

\* ------------------------------------------------------------- the state

\* other: a second ClientHandler, the session of another connection, as a
\* record of its fields; the file system fs is the one both write to.
VARIABLES state, file, file_name, file_path, buffer, key, parameters,
          private_key, cipher, mode, hash_function, transport, out, fs,
          fault, log, stream, other

vars == <<state, file, file_name, file_path, buffer, key, parameters,
          private_key, cipher, mode, hash_function, transport, out, fs,
          fault, log, stream, other>>

\* the session as the record the handlers work on
Self ==
    [state |-> state, file |-> file, file_name |-> file_name,
     file_path |-> file_path, storage_dir |-> STORAGE_DIR, buffer |-> buffer,
     key |-> key, parameters |-> parameters, private_key |-> private_key,
     cipher |-> cipher, mode |-> mode, hash_function |-> hash_function,
     transport |-> transport, out |-> out, fs |-> fs, fault |-> fault,
     log |-> log]

Becomes(s) ==
    /\ state' = s.state
    /\ file' = s.file
    /\ file_name' = s.file_name
    /\ file_path' = s.file_path
    /\ buffer' = s.buffer
    /\ key' = s.key
    /\ parameters' = s.parameters
    /\ private_key' = s.private_key
    /\ cipher' = s.cipher
    /\ mode' = s.mode
    /\ hash_function' = s.hash_function
    /\ transport' = s.transport
    /\ out' = s.out
    /\ fs' = s.fs
    /\ fault' = s.fault
    /\ log' = s.log
    /\ other' = other

\* ClientHandler(signal), before any transport
Init ==
    /\ \E f \in InitialFileSystems :
          /\ fs = f
          /\ state = NewHandler(f).state
          /\ file = NewHandler(f).file
          /\ file_name = NewHandler(f).file_name
          /\ file_path = NewHandler(f).file_path
          /\ buffer = NewHandler(f).buffer
          /\ key = NewHandler(f).key
          /\ parameters = NewHandler(f).parameters
          /\ private_key = NewHandler(f).private_key
          /\ cipher = NewHandler(f).cipher
          /\ mode = NewHandler(f).mode
          /\ hash_function = NewHandler(f).hash_function
          /\ transport = NewHandler(f).transport
          /\ out = NewHandler(f).out
          /\ fault = NewHandler(f).fault
          /\ log = NewHandler(f).log
    /\ stream = <<>>
    /\ other = NewHandler(<<>>)

ConnectionMade(x) ==
    /\ transport = "none"
    /\ Becomes(connection_made(Self, x))
    /\ UNCHANGED stream

\* The event loop calls data_received while the transport is open: after
\* transport.close() no more data is received, and an exception that leaves
\* data_received makes the loop drop the connection.
Deliver(data, io) ==
    /\ transport = "open"
    /\ ~fault
    /\ Becomes(data_received(Self, data, io))

DataReceived(data, io) == Deliver(data, io) /\ UNCHANGED stream

\* the same, with the bytes delivered kept in stream (the framing runs)
DataRecorded(data) == Deliver(data, TRUE) /\ stream' = stream \o data

\* The peer disconnects. ClientHandler defines no connection_lost: no field
\* of the session changes.
ConnectionLost ==
    /\ transport = "open"
    /\ transport' = "closed"
    /\ UNCHANGED <<state, file, file_name, file_path, buffer, key, parameters,
                   private_key, cipher, mode, hash_function, out, fs, fault,
                   log, stream, other>>

Connect == \E x \in PrivateKeys : ConnectionMade(x)

\* whole frames while nothing is pending, the pieces of a frame otherwise
Receive ==
    /\ Len(log) < MaxFrames
    /\ \E io \in BOOLEAN :
          \/ /\ buffer = <<>>
             /\ \E data \in WholeChunks \cup HeadChunks : DataReceived(data, io)
          \/ /\ buffer # <<>>
             /\ \E data \in TailChunks :
                   /\ Len(buffer) + Len(data) <= MaxPending
                   /\ DataReceived(data, io)

Next == Connect \/ Receive \/ ConnectionLost

Spec == Init /\ [][Next]_vars

\* -------------------------------------------------------- negotiation runs

MaxNegotiations == 2

CipherLists == {<<"AES", "ChaCha20">>, <<"ChaCha20", "AES">>, <<"AES">>, <<"DES">>}

ModeLists == {<<"CBC", "GCM">>, <<"GCM", "CBC">>, <<"CBC">>, <<"EBC">>}

HashLists ==
    {<<"SHA-256", "SHA-512">>, <<"SHA-512", "SHA-256">>, <<"SHA-256">>, <<"SHA-384">>}

AllNegotiateTexts ==
    {NegotiateMsg(c, m, h) : c \in CipherLists, m \in ModeLists, h \in HashLists}

\* NEGOTIATE messages only, each in a chunk of its own
ReceiveNegotiate ==
    /\ Len(log) < MaxNegotiations
    /\ \E j \in AllNegotiateTexts : DataReceived(Framed(j), TRUE)

NextNegotiate == Connect \/ ReceiveNegotiate \/ ConnectionLost

SpecNegotiate == Init /\ [][NextNegotiate]_vars

\* ------------------------------------------------------------- OPEN runs

NameChars == {LOWER_A, DOT, SLASH, BACKSLASH, DASH}

RECURSIVE NamesOfLength(_)
NamesOfLength(n) ==
    IF n = 0 THEN {<<>>}
    ELSE {Append(name, ch) : name \in NamesOfLength(n - 1), ch \in NameChars}

Names == UNION {NamesOfLength(n) : n \in 0..MaxName}

\* one OPEN message of any name, then DATA messages
ReceiveOpen ==
    /\ Len(log) < 2
    /\ \E io \in BOOLEAN :
          \/ /\ log = <<>>
             /\ \E name \in Names : DataReceived(Framed(OpenMsg("OPEN", name)), io)
          \/ /\ log # <<>>
             /\ DataReceived(Framed(DataMsg(PayloadA)), io)

NextOpen == Connect \/ ReceiveOpen \/ ConnectionLost

SpecOpen == Init /\ [][NextOpen]_vars

\* ---------------------------------------------------------- framing runs

\* the bytes of the framing runs: the delimiter's, a space, the two bytes of
\* one non-ASCII character, and the text of a NEGOTIATE that succeeds
FramingBytes ==
    {B(CR), B(LF), B(SP), B(UTF8_LEAD), B(UTF8_CONT),
     T(NegotiateMsg(<<"AES">>, <<"CBC">>, <<"SHA-256">>))}

MaxChunk == 3

RECURSIVE ChunksOfLength(_)
ChunksOfLength(n) ==
    IF n = 0 THEN {<<>>}
    ELSE {Append(c, b) : c \in ChunksOfLength(n - 1), b \in FramingBytes}

ByteChunks == UNION {ChunksOfLength(n) : n \in 1..MaxChunk}

\* any bytes in any chunks
ReceiveBytes ==
    \E data \in ByteChunks :
        /\ Len(stream) + Len(data) <= MaxStream
        /\ DataRecorded(data)

NextFraming == Connect \/ ReceiveBytes \/ ConnectionLost

SpecFraming == Init /\ [][NextFraming]_vars

\* ------------------------------------------------------ two connections

\* the second session as the record the handlers work on
Other == [other EXCEPT !.fs = fs]

BecomesOther(s) ==
    /\ other' = [s EXCEPT !.fs = <<>>]
    /\ fs' = s.fs
    /\ UNCHANGED <<state, file, file_name, file_path, buffer, key, parameters,
                   private_key, cipher, mode, hash_function, transport, out,
                   fault, log, stream>>

ConnectionMadeOther(x) ==
    /\ other.transport = "none"
    /\ BecomesOther(connection_made(Other, x))

\* data_received of the second session; each call runs to its end before
\* the event loop makes another
DataReceivedOther(data, io) ==
    /\ other.transport = "open"
    /\ ~other.fault
    /\ BecomesOther(data_received(Other, data, io))

ConnectionLostOther ==
    /\ other.transport = "open"
    /\ other' = [other EXCEPT !.transport = "closed"]
    /\ UNCHANGED <<state, file, file_name, file_path, buffer, key, parameters,
                   private_key, cipher, mode, hash_function, transport, out, fs,
                   fault, log, stream>>

MaxFramesEach == 3

\* OPEN of two names that sanitize to "a", DATA and CLOSE
TwoTexts ==
    {OpenMsg("OPEN", NameA), OpenMsg("OPEN", <<SLASH, LOWER_A>>),
     DataMsg(PayloadA), DataMsg(PayloadBC), Obj([type |-> "CLOSE"])}

ConnectOther == \E x \in PrivateKeys : ConnectionMadeOther(x)

ReceiveOne ==
    /\ Len(log) < MaxFramesEach
    /\ \E j \in TwoTexts : DataReceived(Framed(j), TRUE)

ReceiveOther ==
    /\ Len(other.log) < MaxFramesEach
    /\ \E j \in TwoTexts : DataReceivedOther(Framed(j), TRUE)

NextTwo ==
    \/ Connect
    \/ ConnectOther
    \/ ReceiveOne
    \/ ReceiveOther
    \/ ConnectionLost
    \/ ConnectionLostOther

SpecTwo == Init /\ [][NextTwo]_vars

\* ------------------------------------------------- reading the frame log

\* the message of a logged frame, when the frame parsed to an object
IsMessage(e) == ParseOk(e.frame) /\ Parse(e.frame).kind = "object"

Message(e) == Parse(e.frame).obj

\* the upper-cased type tag of a logged frame ("" when it has none)
TypeOf(e) ==
    IF IsMessage(e) /\ Has(Message(e), "type") THEN Upper(Message(e).type) ELSE ""

IsError(m) == m.type = "ERROR"

Errors(sent) == Len(SelectSeq(sent, IsError))

\* what a frame added to the outbound messages
SentBy(e) == SubSeq(e.post.out, Len(e.pre.out) + 1, Len(e.post.out))

IsOpenSuccess(e) == TypeOf(e) = "OPEN" /\ e.ret = "True"

IsDataSuccess(e) == TypeOf(e) = "DATA" /\ e.ret = "True"

RECURSIVE DecodedPayloads(_)
DecodedPayloads(entries) ==
    IF entries = <<>> THEN <<>>
    ELSE B64Decode(Message(Head(entries)).data) \o DecodedPayloads(Tail(entries))

\* ------------------------------------------------------------------- C1
\* C1: once an OPEN has succeeded, the stored file holds exactly the
\* base64-decoded payloads of the DATA messages that succeeded, one after
\* the other in the order their frames were dispatched (nothing lost,
\* repeated or out of order, and nothing left of an earlier file of that
\* name), however the bytes were split into chunks.
C1_StoredFileIsConcatenation ==
    \A i \in 1..Len(log) :
        IsOpenSuccess(log[i]) =>
            fs.files[log[i].post.file[1].path]
                = DecodedPayloads(SelectSeq(log, IsDataSuccess))

\* OPEN "a", DATA "QQ==", DATA "QkM=", CLOSE were processed, over a file "a"
\* that held other bytes
C1_Witness ==
    /\ Len(log) = 4
    /\ IsOpenSuccess(log[1])
    /\ log[1].pre.fs.files # <<>>
    /\ IsDataSuccess(log[2]) /\ Message(log[2]).data = PayloadA
    /\ IsDataSuccess(log[3]) /\ Message(log[3]).data = PayloadBC
    /\ TypeOf(log[4]) = "CLOSE"
    /\ fs.files[Resolve(PathJoin(STORAGE_DIR, NameA))] = <<65, 66, 67>>

\* ------------------------------------------------------------------- C2
\* C2: a DATA message dispatched in state CONNECT returns failure, creates
\* and writes no file, and leaves the session in state CLOSE with no file
\* handle and the transport closed.
C2_DataBeforeOpenIsFatal ==
    \A i \in 1..Len(log) :
        (TypeOf(log[i]) = "DATA" /\ log[i].pre.state = STATE_CONNECT) =>
            /\ log[i].ret = "False"
            /\ log[i].post.fs = log[i].pre.fs
            /\ log[i].post.file = <<>>
            /\ log[i].post.state = STATE_CLOSE
            /\ log[i].post.transport = "closed"

C2_Witness ==
    \E i \in 1..Len(log) :
        /\ TypeOf(log[i]) = "DATA"
        /\ Has(Message(log[i]), "data")
        /\ B64Ok(Message(log[i]).data)
        /\ log[i].pre.state = STATE_CONNECT
        /\ log[i].pre.transport = "open"

\* ------------------------------------------------------------------- C3
\* C3: on one connection at most one OPEN succeeds, and every OPEN after a
\* successful one returns failure and leaves the file system as it was (no
\* file created, none truncated).
C3_OpenAtMostOnce ==
    /\ Cardinality({i \in 1..Len(log) : IsOpenSuccess(log[i])}) <= 1
    /\ \A i \in 1..Len(log) : \A j \in (i + 1)..Len(log) :
          (IsOpenSuccess(log[i]) /\ TypeOf(log[j]) = "OPEN") =>
              /\ log[j].ret = "False"
              /\ log[j].post.fs = log[j].pre.fs
              /\ log[j].post.file = <<>>

\* a second OPEN of the same name arrived after bytes were written
C3_Witness ==
    \E i \in 1..Len(log) : \E j \in (i + 1)..Len(log) :
        /\ IsOpenSuccess(log[i])
        /\ TypeOf(log[j]) = "OPEN"
        /\ Has(Message(log[j]), "file_name")
        /\ Sanitize(Message(log[j]).file_name) = log[i].post.file_name[1]
        /\ log[j].pre.fs.files[log[i].post.file[1].path] # <<>>

\* ------------------------------------------------------------------- C7
\* C7: a frame that is no well-formed JSON text makes the server send an
\* ERROR message and then close the transport, in whatever state it is.
C7_MalformedSendsErrorThenCloses ==
    \A i \in 1..Len(log) :
        log[i].ret = "parse" =>
            /\ Errors(SentBy(log[i])) = 1
            /\ log[i].post.transport = "closed"

\* ------------------------------------------------------------------- C8
\* C8: whenever a handler returns failure, from whatever state, the
\* dispatcher sends exactly one ERROR message (the last message written for
\* that frame), no file handle stays open, the state is CLOSE and the
\* transport is closed.
C8_FailClosed ==
    \A i \in 1..Len(log) :
        log[i].ret = "False" =>
            /\ Errors(SentBy(log[i])) = 1
            /\ IsError(Last(log[i].post.out))
            /\ log[i].post.file = <<>>
            /\ log[i].post.state = STATE_CLOSE
            /\ log[i].post.transport = "closed"

\* a DATA message failed while the file was open and a chunk was written
C8_Witness ==
    \E i \in 1..Len(log) :
        /\ log[i].ret = "False"
        /\ TypeOf(log[i]) = "DATA"
        /\ log[i].pre.state = STATE_DATA
        /\ log[i].pre.file # <<>>

\* ------------------------------------------------------------------- C9
\* C9: over the whole life of a connection the server writes at most one
\* ERROR message, and the transport is closed once it has.
C9_AtMostOneError ==
    /\ Errors(out) <= 1
    /\ (Errors(out) = 1 => transport = "closed")

\* ------------------------------------------------------------------- C4
Offered(list) == {list[i] : i \in 1..Len(list)}

\* the preferred of two algorithms among those offered, None when neither is
Preferred(first, second, list) ==
    IF first \in Offered(list) THEN first
    ELSE IF second \in Offered(list) THEN second
    ELSE None

HasLists(e) ==
    /\ Has(Message(e), "ciphers")
    /\ Has(Message(e), "modes")
    /\ Has(Message(e), "sinteses")

IsNegotiation(e) ==
    TypeOf(e) = "NEGOTIATE" /\ e.pre.state = STATE_CONNECT /\ HasLists(e)

WantCipher(e) == Preferred("ChaCha20", "AES", Message(e).ciphers)

WantMode(e) == Preferred("GCM", "CBC", Message(e).modes)

WantHash(e) == Preferred("SHA-512", "SHA-256", Message(e).sinteses)

\* C4: a NEGOTIATE with its three lists, processed in state CONNECT,
\* succeeds exactly when each list offers a supported algorithm, and then
\* answers one CIPHER_CHOSEN message carrying ChaCha20 if offered else AES,
\* GCM if offered else CBC, SHA-512 if offered else SHA-256, whatever the
\* order of the lists; the session holds the same triple.
C4_PriorityChoice ==
    \A i \in 1..Len(log) :
        IsNegotiation(log[i]) =>
            /\ log[i].ret = "True" <=>
                  /\ WantCipher(log[i]) # None
                  /\ WantMode(log[i]) # None
                  /\ WantHash(log[i]) # None
            /\ log[i].ret = "True" =>
                  /\ SentBy(log[i]) = <<[type |-> "CIPHER_CHOSEN",
                                         cipher |-> WantCipher(log[i]),
                                         mode |-> WantMode(log[i]),
                                         sintese |-> WantHash(log[i])]>>
                  /\ log[i].post.cipher = WantCipher(log[i])
                  /\ log[i].post.mode = WantMode(log[i])
                  /\ log[i].post.hash_function = WantHash(log[i])

\* the offers {AES,ChaCha20}, {CBC,GCM}, {SHA-256,SHA-512} were answered
\* ChaCha20/GCM/SHA-512, and so were the same offers in the other order
C4_Witness ==
    /\ Len(log) = 2
    /\ Message(log[1]).ciphers = <<"AES", "ChaCha20">>
    /\ Message(log[1]).modes = <<"CBC", "GCM">>
    /\ Message(log[1]).sinteses = <<"SHA-256", "SHA-512">>
    /\ Message(log[2]).ciphers = <<"ChaCha20", "AES">>
    /\ Message(log[2]).modes = <<"GCM", "CBC">>
    /\ Message(log[2]).sinteses = <<"SHA-512", "SHA-256">>
    /\ \A i \in 1..2 :
          /\ log[i].ret = "True"
          /\ SentBy(log[i]) = <<[type |-> "CIPHER_CHOSEN", cipher |-> "ChaCha20",
                                 mode |-> "GCM", sintese |-> "SHA-512"]>>

\* ------------------------------------------------------------------- C5
\* what a failing NEGOTIATE chose before the category that failed
PartialCipher(e) == WantCipher(e)

PartialMode(e) == IF WantCipher(e) = None THEN None ELSE WantMode(e)

\* C5: a NEGOTIATE with its three lists that fails in some category answers
\* a CIPHER_CHOSEN message that carries only what was chosen before the
\* failing category (nothing for the failing category and those after it),
\* then an ERROR message, and leaves the state CLOSE and the transport
\* closed.
C5_PartialChoiceThenFatal ==
    \A i \in 1..Len(log) :
        (IsNegotiation(log[i]) /\ log[i].ret = "False") =>
            /\ SentBy(log[i]) = <<[type |-> "CIPHER_CHOSEN",
                                   cipher |-> PartialCipher(log[i]),
                                   mode |-> PartialMode(log[i]),
                                   sintese |-> None],
                                  [type |-> "ERROR", message |-> "See server"]>>
            /\ log[i].post.state = STATE_CLOSE
            /\ log[i].post.transport = "closed"

\* ------------------------------------------------------------------- C6
\* the frames of a text delivered at once, and what stays in the buffer
RECURSIVE FramesOf(_)
FramesOf(text) ==
    IF Find(text) = 0 THEN <<>>
    ELSE <<Strip(SubSeq(text, 1, Find(text) + 1))>>
             \o FramesOf(SubSeq(text, Find(text) + 2, Len(text)))

RECURSIVE RestOf(_)
RestOf(text) ==
    IF Find(text) = 0 THEN text
    ELSE RestOf(SubSeq(text, Find(text) + 2, Len(text)))

\* C6: whatever the chunks a (well-formed UTF-8) byte stream was delivered
\* in, the frames dispatched are those of the stream delivered at once, each
\* once and in order, and the buffer holds the trailing partial frame.
C6_FramingIndependentOfChunks ==
    Utf8Valid(stream) =>
        /\ [i \in 1..Len(log) |-> log[i].frame] = FramesOf(Utf8Decode(stream))
        /\ buffer = RestOf(Utf8Decode(stream))

\* ------------------------------------------------------------------ C10
IsSeparator(ch) == ch \in {SLASH, BACKSLASH}

\* the characters of a requested name that are letters, digits, underscores
\* or dots, in their order
RECURSIVE WordsAndDots(_)
WordsAndDots(name) ==
    IF name = <<>> THEN <<>>
    ELSE IF Head(name) \in {SLASH, BACKSLASH, DASH, SP}
         THEN WordsAndDots(Tail(name))
         ELSE <<Head(name)>> \o WordsAndDots(Tail(name))

\* C10: the name a successful OPEN uses is the requested name without its
\* characters other than word characters and dots; it holds no '/' and no
\* '\'; the file opened is the entry of that name in the storage directory;
\* and no file exists anywhere but directly in the storage directory.
C10_OpenStaysInStorageRoot ==
    /\ \A i \in 1..Len(log) :
          IsOpenSuccess(log[i]) =>
              /\ log[i].post.file_name[1] = WordsAndDots(Message(log[i]).file_name)
              /\ \A k \in 1..Len(log[i].post.file_name[1]) :
                    ~IsSeparator(log[i].post.file_name[1][k])
              /\ log[i].post.file[1].path
                    = Append(Resolve(STORAGE_DIR), log[i].post.file_name[1])
    /\ \A path \in DOMAIN fs.files : Front(path) = Resolve(STORAGE_DIR)

\* an OPEN of "../a" succeeded
C10_Witness ==
    \E i \in 1..Len(log) :
        /\ IsOpenSuccess(log[i])
        /\ Message(log[i]).file_name = <<DOT, DOT, SLASH, LOWER_A>>
        /\ log[i].post.file_name = <<<<DOT, DOT, LOWER_A>>>>
        /\ log[i].post.file[1].path \in DOMAIN fs.files

\* ------------------------------------------------------------------ C11
IsHandshake(e) == TypeOf(e) \in {"DH_KEY_EXCHANGE", "NEGOTIATE"}

Triple(snap) == <<snap.cipher, snap.mode, snap.hash_function>>

\* C11: a DH_KEY_EXCHANGE or NEGOTIATE message that arrives on an open
\* transport in a state other than CONNECT is rejected as fatal and leaves
\* the key and the negotiated triple as they were; one accepted in state
\* CONNECT leaves the state CONNECT.
C11_HandshakeOnlyInConnect ==
    \A i \in 1..Len(log) :
        (IsHandshake(log[i]) /\ log[i].pre.transport = "open") =>
            /\ log[i].pre.state # STATE_CONNECT =>
                  /\ log[i].ret = "False"
                  /\ log[i].post.key = log[i].pre.key
                  /\ Triple(log[i].post) = Triple(log[i].pre)
                  /\ log[i].post.state = STATE_CLOSE
                  /\ log[i].post.transport = "closed"
            /\ (log[i].pre.state = STATE_CONNECT /\ log[i].ret = "True") =>
                  log[i].post.state = STATE_CONNECT

\* ------------------------------------------------------------------ C12
\* C12: a DH_KEY_EXCHANGE that arrives once the session key is set is not
\* accepted and leaves the key as it was.
C12_KeyDerivedAtMostOnce ==
    \A i \in 1..Len(log) :
        (TypeOf(log[i]) = "DH_KEY_EXCHANGE" /\ log[i].pre.key # <<>>
            /\ log[i].pre.transport = "open") =>
            /\ log[i].ret # "True"
            /\ log[i].post.key = log[i].pre.key

\* ------------------------------------------------------------------ C13
TripleSet(snap) ==
    snap.cipher # None /\ snap.mode # None /\ snap.hash_function # None

\* C13: once cipher, mode and digest are set, no frame changes any of the
\* three.
C13_TripleImmutable ==
    \A i \in 1..Len(log) :
        TripleSet(log[i].pre) => Triple(log[i].post) = Triple(log[i].pre)

\* ------------------------------------------------------------------ C14
\* C14: in no state is the transport closed (by a CLOSE message, a handler
\* failure, a parse error, the buffer guard or the peer) while the session
\* holds an open file handle.
C14_FileReleasedWhenClosed == transport = "closed" => file = <<>>

\* ------------------------------------------------------------------ C15
\* C15: no frame is dispatched to a handler once the transport is closed,
\* and a frame taken from the buffer after that changes no field of the
\* session, writes no outbound message and touches no file.
C15_CloseHaltsProcessing ==
    \A i \in 1..Len(log) :
        log[i].pre.transport = "closed" =>
            /\ log[i].ret = "parse"
            /\ log[i].post = log[i].pre

\* ------------------------------------------------------------------ C17
MessageTypes == {"DH_KEY_EXCHANGE", "OPEN", "NEGOTIATE", "DATA", "CLOSE"}

\* C17: a frame that parses but has no usable type (no type field, an empty
\* or unknown type, or a value that is no object) is fatal in every state:
\* the handler returns failure instead of raising, one ERROR message is
\* written, no file handle stays open, the state is CLOSE and the transport
\* is closed.
C17_NoUsableTypeIsFatal ==
    \A i \in 1..Len(log) :
        (ParseOk(log[i].frame) /\ TypeOf(log[i]) \notin MessageTypes) =>
            /\ log[i].ret = "False"
            /\ Errors(SentBy(log[i])) = 1
            /\ log[i].post.file = <<>>
            /\ log[i].post.state = STATE_CLOSE
            /\ log[i].post.transport = "closed"

\* ------------------------------------------------------------------ C18
\* the peer's public value is missing or does not load
BadPublicValue(e) ==
    \/ ~Has(Message(e), "data")
    \/ ~Has(Message(e).data, "pub_key")
    \/ ~Message(e).data.pub_key.wellformed

\* C18: a DH_KEY_EXCHANGE whose public value is missing or malformed gets
\* the ordinary fatal outcome: the handler returns failure instead of
\* raising, an ERROR message is written, the state is CLOSE, the transport
\* is closed and the key is as it was.
C18_BadPublicValueIsFatal ==
    \A i \in 1..Len(log) :
        (TypeOf(log[i]) = "DH_KEY_EXCHANGE" /\ BadPublicValue(log[i])) =>
            /\ log[i].ret = "False"
            /\ Errors(SentBy(log[i])) = 1
            /\ log[i].post.state = STATE_CLOSE
            /\ log[i].post.transport = "closed"
            /\ log[i].post.key = log[i].pre.key

\* ------------------------------------------------------------------ C19
\* the change of state a frame made is one of the protocol's transitions
Transition(e) ==
    \/ e.post.state = e.pre.state
    \/ e.pre.state = STATE_CONNECT /\ e.post.state = STATE_OPEN /\ IsOpenSuccess(e)
    \/ e.pre.state = STATE_OPEN /\ e.post.state = STATE_DATA /\ IsDataSuccess(e)
    \/ e.post.state = STATE_CLOSE /\ (TypeOf(e) = "CLOSE" \/ e.ret = "False")

\* C19: every frame leaves the state where it was or moves it along CONNECT
\* to OPEN (a successful OPEN), OPEN to DATA (a successful DATA) or to CLOSE
\* (a CLOSE message or a fatal error); a successful OPEN ends in OPEN, a
\* successful DATA in DATA, a failure in CLOSE; the state never decreases,
\* nothing but frames changes it, and from CLOSE it never changes. A CLOSE
\* message succeeds in every state and ends in CLOSE with no file handle.
C19_StateMachine ==
    /\ \A i \in 1..Len(log) :
          /\ Transition(log[i])
          /\ log[i].post.state >= log[i].pre.state
          /\ log[i].pre.state = STATE_CLOSE => log[i].post.state = STATE_CLOSE
          /\ IsOpenSuccess(log[i]) =>
                log[i].pre.state = STATE_CONNECT /\ log[i].post.state = STATE_OPEN
          /\ IsDataSuccess(log[i]) =>
                /\ log[i].pre.state \in {STATE_OPEN, STATE_DATA}
                /\ log[i].post.state = STATE_DATA
          /\ log[i].ret = "False" => log[i].post.state = STATE_CLOSE
          /\ TypeOf(log[i]) = "CLOSE" =>
                /\ log[i].ret = "True"
                /\ log[i].post.state = STATE_CLOSE
                /\ log[i].post.file = <<>>
    /\ \A i \in 1..(Len(log) - 1) : log[i + 1].pre.state = log[i].post.state
    /\ state = (IF log = <<>> THEN STATE_CONNECT ELSE Last(log).post.state)

\* OPEN, DATA and CLOSE took the state through OPEN, DATA and CLOSE, and a
\* second CLOSE succeeded in state CLOSE with the file already closed
C19_Witness ==
    /\ Len(log) = 4
    /\ IsOpenSuccess(log[1])
    /\ IsDataSuccess(log[2]) /\ log[2].pre.state = STATE_OPEN
    /\ TypeOf(log[3]) = "CLOSE" /\ log[3].pre.state = STATE_DATA
    /\ TypeOf(log[4]) = "CLOSE" /\ log[4].pre.state = STATE_CLOSE
    /\ log[4].pre.file = <<>>
    /\ log[4].ret = "True"
    /\ state = STATE_CLOSE

\* ------------------------------------------------------------------ C20
HoldsHandle(snap) == snap.file # <<>>

\* C20: before and after every frame, and in every state of the session, a
\* file handle is held exactly in the states OPEN and DATA; every DATA
\* message that succeeds found a handle and wrote through it.
C20_HandleIffOpenOrData ==
    /\ (file # <<>>) <=> (state \in {STATE_OPEN, STATE_DATA})
    /\ \A i \in 1..Len(log) :
          /\ HoldsHandle(log[i].pre) <=> (log[i].pre.state \in {STATE_OPEN, STATE_DATA})
          /\ HoldsHandle(log[i].post) <=> (log[i].post.state \in {STATE_OPEN, STATE_DATA})
          /\ IsDataSuccess(log[i]) =>
                /\ HoldsHandle(log[i].pre)
                /\ HoldsHandle(log[i].post)
                /\ log[i].post.file[1].path = log[i].pre.file[1].path

\* a DATA message wrote to the handle in state OPEN, another in state DATA,
\* and a CLOSE message released it
C20_Witness ==
    /\ Len(log) = 4
    /\ IsOpenSuccess(log[1])
    /\ IsDataSuccess(log[2]) /\ log[2].pre.state = STATE_OPEN
    /\ IsDataSuccess(log[3]) /\ log[3].pre.state = STATE_DATA
    /\ log[3].post.file[1].pos > log[2].post.file[1].pos
    /\ TypeOf(log[4]) = "CLOSE" /\ HoldsHandle(log[4].pre)
    /\ file = <<>>

\* ------------------------------------------------------------------ C16
\* the fields of a session a log entry keeps, without the shared file system
Fields(snap) ==
    <<snap.state, snap.file, snap.file_name, snap.key, Triple(snap), snap.out>>

\* the file the session holds open after a frame
HeldFile(snap) == snap.fs.files[snap.file[1].path]

\* between two frames of a session nothing changed its fields or the bytes
\* of the file it holds open, and the file it opened holds its own chunks
IsolatedSession(l, files) ==
    /\ \A i \in 1..(Len(l) - 1) :
          /\ Fields(l[i + 1].pre) = Fields(l[i].post)
          /\ HoldsHandle(l[i].post) =>
                l[i + 1].pre.fs.files[l[i].post.file[1].path] = HeldFile(l[i].post)
    /\ \A i \in 1..Len(l) :
          IsOpenSuccess(l[i]) =>
              files[l[i].post.file[1].path]
                  = DecodedPayloads(SelectSeq(l, IsDataSuccess))

\* C16: with two sessions whose messages interleave in any order, also when
\* both open names that sanitize to the same name, the frames of one
\* session change neither the fields of the other nor the bytes of the file
\* the other holds open, and each session's file holds that session's
\* chunks one after the other.
C16_SessionsIsolated ==
    /\ IsolatedSession(log, fs.files)
    /\ IsolatedSession(other.log, fs.files)

====
